---- MODULE Spec2Model ----
(***************************************************************************)
(* PWM driver of stm32l0xx-hal (src/pwm.rs): Timer::new, the Channel       *)
(* register protocol of C1..C4, the Unassigned -> Assigned handle and the  *)
(* hal::PwmPin operations, over the register block of one timer (TIM2).    *)
(***************************************************************************)
EXTENDS Integers, Sequences, FiniteSets, TLC

(***************************************************************************)
(* Program constants.                                                      *)
(***************************************************************************)
\* 1 << 16, the divisor of the prescaler computation
Pow16 == 65536

\* largest value cast::u16 accepts
U16_MAX == 65535

\* output-compare mode written by enable: 0b110, PWM mode 1
PWM_MODE_1 == 6

\* impl_channel!(C1, C2, C3, C4)
NumChannels == 4

Channels == 1..NumChannels

(***************************************************************************)
(* Bounds of the model.                                                    *)
(***************************************************************************)
\* number of channel handles the caller binds to a pin in one run
MaxAssigned == 2

\* SpecNew requests every frequency 0..MaxFreq (and HighFreqs)
MaxFreq == 40

\* timer input clocks (apb1_clk) and requested frequencies of Spec
Clocks == {32000000, 2097152}

Freqs == {0, 1, 1000, 33000000}

\* duty values passed to set_duty
Duties == {0, 16000, 65535}

\* inputs of SpecNew: the MSI ranges, HSI16, the 32 MHz maximum, and two
\* u32 values near 2^30 whose ticks need the largest reload values
ClocksWide == {65536, 2097152, 4194304, 16000000, 32000000, 32768000,
               1073741823, 1073741824}

HighFreqs == {50, 100, 244, 245, 488, 489, 500, 1000, 20000, 65535, 65536,
              1000000, 16000000, 32000000, 33000000}

FreqsWide == (0..MaxFreq) \cup HighFreqs

VARIABLES
    rcc,      \* apb1enr.tim2en and apb1rstr.tim2rst
    tim,      \* the register block tim2::RegisterBlock, register by register
    status,   \* "fresh": Timer::new not called; "running"; "panicked"
    clk,      \* timer.clock_frequency(rcc) seen by Timer::new
    freq,     \* frequency.0 passed to Timer::new
    handle,   \* per channel: "none", "Unassigned" or "Assigned"
    pins,     \* per channel: alternate function of the bound pin
    hwlog,    \* hardware writes of Timer::new, in program order
    last,     \* the last operation: its name, channel, result, registers
    objs,     \* per channel: the Pwm values in existence, by type-state
    cpu       \* PRIMASK, the main flow and the interrupt handler (SpecIrq)

vars == <<rcc, tim, status, clk, freq, handle, pins, hwlog, last, objs, cpu>>

(***************************************************************************)
(* The register block.  A register is a record of the fields the driver    *)
(* uses; CCMR1 holds channels 1 and 2, CCMR2 channels 3 and 4, CCER one    *)
(* enable bit per channel.                                                 *)
(***************************************************************************)
CcmrName(c) == IF c <= 2 THEN "ccmr1" ELSE "ccmr2"

CcrName(c) == CASE c = 1 -> "ccr1" [] c = 2 -> "ccr2" [] c = 3 -> "ccr3" [] OTHER -> "ccr4"

CcmrReset == [ocpe |-> 0, ocm |-> 0]

\* register state left by the reset pulse of Instance::enable
TimReset ==
    [psc   |-> 0,
     arr   |-> U16_MAX,
     cr1   |-> [cen |-> 0],
     ccmr1 |-> [c \in {1, 2} |-> CcmrReset],
     ccmr2 |-> [c \in {3, 4} |-> CcmrReset],
     ccer  |-> [c \in Channels |-> 0],
     ccr1  |-> 0, ccr2 |-> 0, ccr3 |-> 0, ccr4 |-> 0]

\* a register state left behind by an earlier use of the peripheral
TimDirty ==
    [psc   |-> 7,
     arr   |-> 999,
     cr1   |-> [cen |-> 1],
     ccmr1 |-> [c \in {1, 2} |-> [ocpe |-> 1, ocm |-> 3]],
     ccmr2 |-> [c \in {3, 4} |-> CcmrReset],
     ccer  |-> [c \in Channels |-> IF c = 2 THEN 1 ELSE 0],
     ccr1  |-> 500, ccr2 |-> 0, ccr3 |-> 0, ccr4 |-> 0]

(***************************************************************************)
(* Timer::new: the frequency-to-register computation.                      *)
(***************************************************************************)
\* cast::u16(x): Ok(x) when x fits 16 bits, Err(Overflow) otherwise
U16Truncating(x) == [ok |-> TRUE, val |-> x % Pow16]

U16(x) == [ok |-> x <= U16_MAX, val |-> x]

\* let ticks = clk / freq
Ticks(c, f) == c \div f

\* (ticks - 1) / (1 << 16) in u32.  ticks = 0 without overflow checks wraps
\* to 2^32 - 1, whose quotient by 2^16 is 65535.
PscQuotFloor(ticks) == ticks \div Pow16

PscQuotCeil(ticks) == (ticks + Pow16 - 1) \div Pow16

PscQuot(ticks) == IF ticks = 0 THEN U16_MAX ELSE (ticks - 1) \div Pow16

\* psc + 1 in u16 without overflow checks
PscPlus1Wide(psc) == psc + 1

PscPlus1(psc) == (psc + 1) % Pow16

\* ticks / u32(psc + 1)
ArrQuotMinus2(ticks, d) == (ticks \div d) - 2

ArrQuotMinus1(ticks, d) == (ticks \div d) - 1

ArrQuot(ticks, d) == ticks \div d

Panic(why) == [ok |-> FALSE, err |-> why, psc |-> 0, arr |-> 0]

\* lines 81-85; checks: the build traps on integer overflow (debug) or wraps
NewCalc(c, f, checks) ==
    IF f = 0 THEN Panic("divide by zero")
    ELSE LET ticks == Ticks(c, f) IN
    IF ticks = 0 /\ checks THEN Panic("subtract with overflow")
    ELSE LET p == U16(PscQuot(ticks)) IN
    IF ~p.ok THEN Panic("unwrap psc")
    ELSE IF p.val = U16_MAX /\ checks THEN Panic("add with overflow")
    ELSE LET d == PscPlus1(p.val) IN
    IF d = 0 THEN Panic("divide by zero")
    ELSE LET a == U16(ArrQuot(ticks, d)) IN
    IF ~a.ok THEN Panic("unwrap arr")
    ELSE [ok |-> TRUE, err |-> "", psc |-> p.val, arr |-> a.val]

\* a hardware write of Timer::new: the field written and its value
W(field, val) == [w |-> field, v |-> val]

\* Instance::enable: clock enable, reset asserted, reset cleared
EnableLogNoReset == <<W("tim2en", 1)>>

EnableLog == <<W("tim2en", 1), W("tim2rst", 1), W("tim2rst", 0)>>

\* lines 86-88: psc.write, arr.write, cr1.write(cen)
WriteLogCenFirst(psc, arr) == <<W("cen", 1), W("psc", psc), W("arr", arr)>>

WriteLog(psc, arr) == <<W("psc", psc), W("arr", arr), W("cen", 1)>>

\* the effect of one write on the timer's registers; asserting the reset
\* line puts every register at its reset value
HwWrite(t, e) ==
    CASE e.w = "tim2rst" /\ e.v = 1 -> TimReset
      [] e.w = "psc" -> [t EXCEPT !.psc = e.v]
      [] e.w = "arr" -> [t EXCEPT !.arr = e.v]
      [] e.w = "cen" -> [t EXCEPT !.cr1 = [cen |-> e.v]]
      [] OTHER -> t

\* the effect of one write on apb1enr / apb1rstr
RccWrite(r, e) ==
    CASE e.w = "tim2en" -> [r EXCEPT !.en = e.v]
      [] e.w = "tim2rst" -> [r EXCEPT !.rst = e.v]
      [] OTHER -> r

RECURSIVE Replay(_, _)
Replay(log, t) ==
    IF log = <<>> THEN t ELSE Replay(Tail(log), HwWrite(t, Head(log)))

RECURSIVE ReplayRcc(_, _)
ReplayRcc(log, r) ==
    IF log = <<>> THEN r ELSE ReplayRcc(Tail(log), RccWrite(r, Head(log)))

\* the registers each operation accesses (reads or writes)
RegsOf(name, c) ==
    CASE name = "disable" -> {"ccer"}
      [] name = "enable" -> {CcmrName(c), "ccer"}
      [] name = "get_duty" -> {CcrName(c)}
      [] name = "set_duty" -> {CcrName(c)}
      [] name = "get_max_duty" -> {"arr"}
      [] name = "new" -> {"psc", "arr", "cr1"}
      [] OTHER -> {}

\* a context (main flow or interrupt handler) with no call in progress
CtxIdle == [pc |-> "idle", op |-> "none", ch |-> 0, idx |-> 0, tmp |-> 0, saved |-> FALSE]

\* the channel's fields: output-compare enable, mode and preload enable
ChannelBits(t, c) ==
    [cce |-> t.ccer[c], ocm |-> t[CcmrName(c)][c].ocm, ocpe |-> t[CcmrName(c)][c].ocpe]

\* interrupts enabled, no call in progress in either context; want: the
\* fields each channel should hold after the calls issued on it so far
CpuIdle ==
    [primask |-> FALSE,
     main |-> CtxIdle,
     irq  |-> CtxIdle,
     want |-> [c \in Channels |-> ChannelBits(TimReset, c)]]

NoOp ==
    [op |-> "none", ch |-> 0, arg |-> 0, ret |-> 0, err |-> "", regs |-> {},
     streak |-> <<>>, snaps |-> <<>>]

Op(name, c, arg, ret) ==
    [op |-> name, ch |-> c, arg |-> arg, ret |-> ret, err |-> "",
     regs |-> RegsOf(name, c), streak |-> <<>>, snaps |-> <<>>]

\* one Pwm value per channel, made by Pwm::new() in the Unassigned state
NoObjs == [c \in Channels |-> [un |-> 0, as |-> 0]]

NewObjs == [c \in Channels |-> [un |-> 1, as |-> 0]]

TimerNew(c, f) ==
    /\ status = "fresh"
    /\ \E checks \in BOOLEAN :
        LET r == NewCalc(c, f, checks)
            log == IF r.ok THEN EnableLog \o WriteLog(r.psc, r.arr) ELSE EnableLog
        IN
        /\ rcc' = ReplayRcc(log, rcc)
        /\ tim' = Replay(log, tim)
        /\ hwlog' = log
        /\ clk' = c
        /\ freq' = f
        /\ IF r.ok
           THEN /\ status' = "running"
                /\ handle' = [ch \in Channels |-> "Unassigned"]
                /\ objs' = NewObjs
                /\ last' = Op("new", 0, 0, 0)
           ELSE /\ status' = "panicked"
                /\ handle' = handle
                /\ objs' = objs
                /\ last' = [Op("new", 0, 0, 0) EXCEPT !.err = r.err, !.regs = {}]
    /\ UNCHANGED <<pins, cpu>>

(***************************************************************************)
(* impl_channel!: the Channel operations on the register block.            *)
(***************************************************************************)
ChDisableToggle(t, c) == [t EXCEPT !.ccer[c] = 1 - t.ccer[c]]

ChDisableWrite(t, c) == [t EXCEPT !.ccer = [x \in Channels |-> 0]]

\* tim.ccer.modify(|_, w| w.ccxe().clear_bit())
ChDisable(t, c) == [t EXCEPT !.ccer[c] = 0]

ChEnableClearsBit(t, c) ==
    LET t1 == [t EXCEPT ![CcmrName(c)][c] = [ocpe |-> 1, ocm |-> PWM_MODE_1]]
    IN  [t1 EXCEPT !.ccer[c] = 0]

\* ccmr.modify(ocxpe set, ocxm = 0b110), then ccer.modify(ccxe set)
ChEnable(t, c) ==
    LET t1 == [t EXCEPT ![CcmrName(c)][c] = [ocpe |-> 1, ocm |-> PWM_MODE_1]]
    IN  [t1 EXCEPT !.ccer[c] = 1]

\* tim.ccrx.read().ccr().bits() as u16
ChGetDuty(t, c) == t[CcrName(c)] % Pow16

ChSetDutySaturating(t, c, duty) ==
    [t EXCEPT ![CcrName(c)] = IF duty > t.arr THEN t.arr ELSE duty]

ChSetDutyWrongReg(t, c, duty) == [t EXCEPT !.arr = duty]

\* tim.ccrx.write(|w| w.ccr().bits(duty.into()))
ChSetDuty(t, c, duty) == [t EXCEPT ![CcrName(c)] = duty]

\* tim.arr.read().arr().bits() as u16
ReadMaxDuty(t) == t.arr % Pow16

(***************************************************************************)
(* Pwm<I, C, Unassigned>::assign and hal::PwmPin for Pwm<I, C, Assigned>.  *)
(***************************************************************************)
\* assign(self, pin): the Unassigned value is moved into the call
Borrowed(n) == n

Consumed(n) == n - 1

NumAssigned == Cardinality({c \in Channels : handle[c] = "Assigned"})

Assign(c) ==
    /\ status = "running"
    /\ handle[c] = "Unassigned"
    /\ NumAssigned < MaxAssigned
    /\ pins' = [pins EXCEPT ![c] = "AF2"]
    /\ handle' = [handle EXCEPT ![c] = "Assigned"]
    /\ objs' = [objs EXCEPT ![c] = [un |-> Consumed(objs[c].un), as |-> objs[c].as + 1]]
    /\ last' = Op("assign", c, 0, 0)
    /\ UNCHANGED <<rcc, tim, status, clk, freq, hwlog, cpu>>

\* the handle of channel c exists in the Assigned state
LiveAnyState(c) == status = "running" /\ handle[c] # "none"

Live(c) == status = "running" /\ handle[c] = "Assigned"

\* the enable/disable calls made in a row on channel c, this one included
\* (the last three of them)
Last3(q) == IF Len(q) > 3 THEN Tail(q) ELSE q

Streak(name, c) ==
    Last3(Append(IF last.ch = c THEN last.streak ELSE <<>>, name))

\* the channel's CCMR fields as each call of the streak left them
Snaps(c, t) ==
    Last3(Append(IF last.ch = c THEN last.snaps ELSE <<>>, t[CcmrName(c)][c]))

Disable(c) ==
    /\ Live(c)
    /\ tim' = ChDisable(tim, c)
    /\ last' = [Op("disable", c, 0, 0) EXCEPT
                   !.streak = Streak("disable", c), !.snaps = Snaps(c, tim')]
    /\ UNCHANGED <<rcc, status, clk, freq, handle, pins, hwlog, objs, cpu>>

Enable(c) ==
    /\ Live(c)
    /\ tim' = ChEnable(tim, c)
    /\ last' = [Op("enable", c, 0, 0) EXCEPT
                   !.streak = Streak("enable", c), !.snaps = Snaps(c, tim')]
    /\ UNCHANGED <<rcc, status, clk, freq, handle, pins, hwlog, objs, cpu>>

GetDuty(c) ==
    /\ Live(c)
    /\ last' = Op("get_duty", c, 0, ChGetDuty(tim, c))
    /\ UNCHANGED <<rcc, tim, status, clk, freq, handle, pins, hwlog, objs, cpu>>

GetMaxDuty(c) ==
    /\ Live(c)
    /\ last' = Op("get_max_duty", c, 0, ReadMaxDuty(tim))
    /\ UNCHANGED <<rcc, tim, status, clk, freq, handle, pins, hwlog, objs, cpu>>

SetDuty(c, duty) ==
    /\ Live(c)
    /\ tim' = ChSetDuty(tim, c, duty)
    /\ last' = Op("set_duty", c, duty, 0)
    /\ UNCHANGED <<rcc, status, clk, freq, handle, pins, hwlog, objs, cpu>>

(***************************************************************************)
(* Register fields: <<register, channel, field>>.                          *)
(***************************************************************************)
\* the operations of the Channel trait
ChannelOps == {"disable", "enable", "get_duty", "set_duty"}

\* the fields each Channel operation reads or writes
FieldsOf(name, c) ==
    CASE name = "disable" -> {<<"ccer", c, "cce">>}
      [] name = "enable" ->
             {<<CcmrName(c), c, "ocpe">>, <<CcmrName(c), c, "ocm">>, <<"ccer", c, "cce">>}
      [] name = "get_duty" -> {<<CcrName(c), c, "ccr">>}
      [] name = "set_duty" -> {<<CcrName(c), c, "ccr">>}
      [] OTHER -> {}

\* the register block after the Channel operation `name` on channel c
Apply(name, c, t, duty) ==
    CASE name = "disable" -> ChDisable(t, c)
      [] name = "enable" -> ChEnable(t, c)
      [] name = "set_duty" -> ChSetDuty(t, c, duty)
      [] OTHER -> t

(***************************************************************************)
(* PwmPin::enable and PwmPin::disable statement by statement, called from  *)
(* the main flow and from an interrupt handler on the same core.  Each     *)
(* `modify` is a register read followed by a register write.               *)
(***************************************************************************)
Ctxs == {"main", "irq"}

Other(x) == IF x = "main" THEN "irq" ELSE "main"

\* interrupt::free(|_| ...): PRIMASK while the closure runs
NoCriticalSection(p) == p

InterruptFree(p) == TRUE

\* the registers Channel::enable modifies, in statement order
EnableOrderCcerFirst == <<"ccer", "ccmr">>

EnableOrder == <<"ccmr", "ccer">>

StepRegs(name) == IF name = "enable" THEN EnableOrder ELSE <<"ccer">>

StepReg(x) ==
    IF StepRegs(cpu[x].op)[cpu[x].idx] = "ccmr" THEN CcmrName(cpu[x].ch) ELSE "ccer"

\* the channel's fields once a call of `name` has completed
Expected(bits, name) ==
    IF name = "enable"
    THEN [cce |-> 1, ocm |-> PWM_MODE_1, ocpe |-> 1]
    ELSE [bits EXCEPT !.cce = 0]

\* the interrupt handler runs to completion once entered, and is entered
\* only while PRIMASK is clear; the main flow runs while no handler does
CanStart(x) ==
    /\ cpu[x].pc = "idle"
    /\ cpu.irq.pc = "idle"
    /\ x = "irq" => ~cpu.primask

CanRun(x) == IF x = "main" THEN cpu.irq.pc = "idle" ELSE cpu.irq.pc # "idle"

IrqAssign(c) ==
    /\ cpu.main.pc = "idle"
    /\ cpu.irq.pc = "idle"
    /\ Assign(c)

\* the call of enable() or disable() on the handle of channel c
Call(x, name, c) ==
    /\ Live(c)
    /\ CanStart(x)
    /\ cpu[Other(x)].ch # c
    /\ cpu' = [cpu EXCEPT ![x] = [CtxIdle EXCEPT !.pc = "enter", !.op = name,
                                                 !.ch = c, !.idx = 1],
                          !.want[c] = Expected(cpu.want[c], name)]
    /\ UNCHANGED <<rcc, tim, status, clk, freq, handle, pins, hwlog, last, objs>>

\* interrupt::free saves PRIMASK and disables interrupts
Enter(x) ==
    /\ cpu[x].pc = "enter"
    /\ CanRun(x)
    /\ cpu' = [cpu EXCEPT !.primask = InterruptFree(cpu.primask),
                          ![x].saved = cpu.primask,
                          ![x].pc = "read"]
    /\ UNCHANGED <<rcc, tim, status, clk, freq, handle, pins, hwlog, last, objs>>

\* modify: read the register
Read(x) ==
    /\ cpu[x].pc = "read"
    /\ CanRun(x)
    /\ cpu' = [cpu EXCEPT ![x].tmp = tim[StepReg(x)], ![x].pc = "write"]
    /\ UNCHANGED <<rcc, tim, status, clk, freq, handle, pins, hwlog, last, objs>>

\* modify: write the value read, with the channel's fields changed
Write(x) ==
    /\ cpu[x].pc = "write"
    /\ CanRun(x)
    /\ LET reg == StepReg(x)
           t1 == [tim EXCEPT ![reg] = cpu[x].tmp]
           t2 == IF cpu[x].op = "enable"
                 THEN ChEnable(t1, cpu[x].ch)
                 ELSE ChDisable(t1, cpu[x].ch)
           more == cpu[x].idx < Len(StepRegs(cpu[x].op))
       IN  /\ tim' = [tim EXCEPT ![reg] = t2[reg]]
           /\ cpu' = [cpu EXCEPT ![x].tmp = 0,
                                 ![x].idx = IF more THEN cpu[x].idx + 1 ELSE cpu[x].idx,
                                 ![x].pc = IF more THEN "read" ELSE "exit"]
    /\ UNCHANGED <<rcc, status, clk, freq, handle, pins, hwlog, last, objs>>

\* interrupt::free restores PRIMASK; the call returns
Exit(x) ==
    /\ cpu[x].pc = "exit"
    /\ CanRun(x)
    /\ cpu' = [cpu EXCEPT !.primask = cpu[x].saved, ![x] = CtxIdle]
    /\ last' = Op(cpu[x].op, cpu[x].ch, 0, 0)
    /\ UNCHANGED <<rcc, tim, status, clk, freq, handle, pins, hwlog, objs>>

(***************************************************************************)
(* Specifications.                                                         *)
(***************************************************************************)
Init ==
    /\ rcc \in {[en |-> 0, rst |-> 0], [en |-> 1, rst |-> 0]}
    /\ tim \in {TimReset, TimDirty}
    /\ status = "fresh"
    /\ clk = 0
    /\ freq = 0
    /\ handle = [c \in Channels |-> "none"]
    /\ pins = [c \in Channels |-> "unset"]
    /\ hwlog = <<>>
    /\ last = NoOp
    /\ objs = NoObjs
    /\ cpu = CpuIdle

New == \E c \in Clocks, f \in Freqs : TimerNew(c, f)

NewWide == \E c \in ClocksWide, f \in FreqsWide : TimerNew(c, f)

Next ==
    \/ New
    \/ \E c \in Channels : Assign(c)
    \/ \E c \in Channels : Disable(c)
    \/ \E c \in Channels : Enable(c)
    \/ \E c \in Channels : GetDuty(c)
    \/ \E c \in Channels : GetMaxDuty(c)
    \/ \E c \in Channels, d \in Duties : SetDuty(c, d)

Spec == Init /\ [][Next]_vars

\* Timer::new alone, over the wide input sets
NextNew == NewWide

SpecNew == Init /\ [][NextNew]_vars

\* enable and disable statement by statement, with an interrupt handler
NextIrq ==
    \/ New
    \/ \E c \in Channels : IrqAssign(c)
    \/ \E x \in Ctxs, name \in {"enable", "disable"}, c \in Channels : Call(x, name, c)
    \/ \E x \in Ctxs : Enter(x)
    \/ \E x \in Ctxs : Read(x)
    \/ \E x \in Ctxs : Write(x)
    \/ \E x \in Ctxs : Exit(x)

SpecIrq == Init /\ [][NextIrq]_vars

(***************************************************************************)
(* Timer::new: properties of the programmed prescaler and reload.          *)
(***************************************************************************)
\* Timer::new has returned normally
Constructed == status = "running"

\* Timer::new was called and panicked
Failed == status = "panicked"

\* the inputs of the call that was made
ReqTicks == freq # 0 /\ clk \div freq >= 1

CeilDiv(a, b) == (a + b - 1) \div b

\* C1: with clk = 32,000,000 Hz and 1,000 Hz requested, Timer::new writes
\* psc = 0 and arr = 31,999, and get_max_duty() afterwards returns 31,999.
C1_Scenario1kHz ==
    (status # "fresh" /\ clk = 32000000 /\ freq = 1000) =>
        /\ Constructed
        /\ tim.psc = 0
        /\ tim.arr = 31999
        /\ (last.op = "get_max_duty" => last.ret = 31999)

\* C2 as stated: with clk = 32,000,000 Hz and 1 Hz requested, Timer::new
\* fails and programs no prescaler/reload pair.
C2_MustFail ==
    (status # "fresh" /\ clk = 32000000 /\ freq = 1) =>
        /\ Failed
        /\ tim.psc = TimReset.psc
        /\ tim.arr = TimReset.arr

\* C2 as amended: with clk = 32,000,000 Hz and 1 Hz requested (ticks =
\* 32,000,000), Timer::new completes: it writes psc = 488 and arr = 65,439
\* (32,000,000 / 489), both of which fit 16 bits, and starts the counter.
C2_Succeeds ==
    (status # "fresh" /\ clk = 32000000 /\ freq = 1) =>
        /\ Constructed
        /\ tim.psc = 488
        /\ tim.arr = 65439
        /\ tim.cr1.cen = 1

C2_Witness ==
    Constructed /\ clk = 32000000 /\ freq = 1 /\ last.op = "new" /\ tim.arr = 65439

\* C3: whenever Timer::new succeeds with ticks = clk / f >= 1, the prescaler
\* register holds ceil(ticks / 65536) - 1 and the reload register holds
\* ticks / (psc + 1) under integer division.
C3_PscArrFormula ==
    Constructed =>
        /\ ReqTicks
        /\ tim.psc = CeilDiv(clk \div freq, 65536) - 1
        /\ tim.arr = (clk \div freq) \div (tim.psc + 1)

C3_Witness ==
    /\ Constructed
    /\ last.op = "new"
    /\ tim.psc > 0
    /\ (clk \div freq) % (tim.psc + 1) # 0

\* C4: whenever Timer::new succeeds, the output frequency
\* clk / ((psc + 1) * (arr + 1)) of the written psc and arr is not higher
\* than the requested frequency (as an integer quotient and as a fraction).
C4_NeverHigher ==
    Constructed =>
        LET period == (tim.psc + 1) * (tim.arr + 1) IN
        /\ period > 0
        /\ clk \div period <= freq
        /\ clk <= freq * period

C4_Witness ==
    /\ Constructed
    /\ last.op = "new"
    /\ tim.psc > 0
    /\ clk < freq * (tim.psc + 1) * (tim.arr + 1)

\* C5: whenever the prescaler or reload the request needs does not fit 16
\* bits, Timer::new panics and leaves the prescaler, reload and control
\* registers unwritten; a Timer that is returned runs with exactly the
\* computed prescaler and reload, never a clamped or truncated one.
C5_NoSilentClamp ==
    ReqTicks /\ status # "fresh" =>
        LET ticks == clk \div freq
            p == (ticks - 1) \div 65536
            a == ticks \div (p + 1)
        IN  /\ (p > 65535 \/ a > 65535) =>
                /\ Failed
                /\ tim.psc = TimReset.psc
                /\ tim.arr = TimReset.arr
                /\ tim.cr1.cen = 0
                /\ handle = [c \in Channels |-> "none"]
            /\ Constructed => tim.psc = p /\ tim.arr = a

C5_Witness ==
    /\ Failed
    /\ last.err = "unwrap arr"
    /\ (clk \div freq) \div (((clk \div freq) - 1) \div 65536 + 1) > 65535
    /\ tim.arr = TimReset.arr

(***************************************************************************)
(* The PwmPin operations on assigned channels.                             *)
(***************************************************************************)
\* C6: set_duty(d) followed immediately by get_duty() on the same channel
\* returns d, for every channel and duty and whatever the reload value is;
\* set_duty stores d unchanged, also when d exceeds the reload value.
C6_DutyRoundTrip ==
    [][\A c \in Channels :
        /\ (last.op = "set_duty" /\ last.ch = c /\ GetDuty(c)) =>
               last'.ret = last.arg
        /\ \A d \in Duties :
               SetDuty(c, d) => tim'[CcrName(c)] = d /\ tim'.arr = tim.arr]_vars

C6_Witness ==
    /\ last.op = "get_duty"
    /\ Live(last.ch)
    /\ last.ret = 65535
    /\ tim[CcrName(last.ch)] = 65535
    /\ tim.arr < 65535

\* the reload value Timer::new computed from its inputs
ArrAtInit ==
    LET ticks == clk \div freq
    IN  ticks \div ((ticks - 1) \div 65536 + 1)

\* C7: after a successful Timer::new the reload register keeps the value
\* computed at initialization through every set_duty and get_duty call on
\* any channel, and get_max_duty() returns that value.
C7_MaxDutyIsArr ==
    Constructed =>
        /\ tim.arr = ArrAtInit
        /\ (last.op = "get_max_duty" => last.ret = ArrAtInit)

C7_Witness ==
    /\ last.op = "get_max_duty"
    /\ last.ret = 32000
    /\ \E c \in Channels : Live(c) /\ c # last.ch /\ tim[CcrName(c)] = 65535
    /\ tim[CcrName(last.ch)] = 16000

EDE == <<"enable", "disable", "enable">>

\* C8: after enable(), disable(), enable() in a row on a channel its
\* output-compare-enable bit is set and its mode (0b110) and preload-enable
\* fields equal their values after the first enable().
C8_EnableDisableEnable ==
    \A c \in Channels :
        (last.ch = c /\ last.streak = EDE) =>
            /\ ChannelBits(tim, c) = [cce |-> 1, ocm |-> 6, ocpe |-> 1]
            /\ tim[CcmrName(c)][c] = last.snaps[1]

C8_Witness ==
    /\ last.op = "enable"
    /\ last.streak = EDE
    /\ Live(last.ch)
    /\ tim.ccer[last.ch] = 1

\* C9: enable() called twice in a row on a channel leaves every register of
\* the timer as the first call left it, and so does disable() called twice.
C9_Idempotent ==
    [][\A c \in Channels :
        /\ (last.op = "enable" /\ last.ch = c /\ Enable(c)) => tim' = tim
        /\ (last.op = "disable" /\ last.ch = c /\ Disable(c)) => tim' = tim]_vars

C9_Witness ==
    /\ Len(last.streak) >= 2
    /\ last.streak[Len(last.streak)] = "disable"
    /\ last.streak[Len(last.streak) - 1] = "disable"
    /\ \E c \in Channels : c # last.ch /\ tim.ccer[c] = 1

\* C10 as stated: for any two distinct channels with a handle and any pair
\* of operations among enable, disable, get_duty, set_duty, the registers
\* accessed through one channel are disjoint from those accessed through
\* the other.
C10_DisjointRegisters ==
    \A x, y \in Channels :
        (x # y /\ Live(x) /\ Live(y)) =>
            \A a, b \in ChannelOps : RegsOf(a, x) \cap RegsOf(b, y) = {}

\* the access sets of any two operations on two distinct channels
AccessDisjoint ==
    \A x, y \in Channels :
        x # y =>
            \A a, b \in ChannelOps :
                /\ FieldsOf(a, x) \cap FieldsOf(b, y) = {}
                /\ {f[1] : f \in FieldsOf(a, x)} = RegsOf(a, x)
                /\ ({a, b} \subseteq {"get_duty", "set_duty"} =>
                       RegsOf(a, x) \cap RegsOf(b, y) = {})
                /\ ({a, b} \subseteq {"enable", "disable"} =>
                       "ccer" \in RegsOf(a, x) \cap RegsOf(b, y))

\* C10 as amended: operations on two distinct channels access disjoint
\* register fields, and each leaves every field outside its own unchanged;
\* get_duty/set_duty on distinct channels also access distinct registers
\* (CCRx), while enable and disable share CCER among all channels and
\* enable shares CCMR1 (channels 1, 2) or CCMR2 (channels 3, 4).
C10_DisjointFields ==
    /\ (\E x, y \in Channels : x # y /\ Live(x) /\ Live(y)) => AccessDisjoint
    /\ \A x \in Channels :
        (Live(x) /\ \E y \in Channels : y # x /\ Live(y)) =>
            \A a \in ChannelOps :
                \A d \in (IF a = "set_duty" THEN Duties ELSE {0}) :
                    LET t2 == Apply(a, x, tim, d) IN
                    /\ \A r \in (DOMAIN tim) \ RegsOf(a, x) : t2[r] = tim[r]
                    /\ \A y \in Channels \ {x} :
                           ChannelBits(t2, y) = ChannelBits(tim, y)

C10_Witness ==
    /\ last.op = "disable"
    /\ Live(last.ch)
    /\ \E y \in Channels :
        /\ y # last.ch
        /\ Live(y)
        /\ CcmrName(y) = CcmrName(last.ch)
        /\ tim.ccer[y] = 1
        /\ tim[CcrName(y)] # tim[CcrName(last.ch)]

(***************************************************************************)
(* Timer::new: order of the hardware writes and failing calls.             *)
(***************************************************************************)
\* the prescaler Timer::new computes from its inputs
PscAtInit == ((clk \div freq) - 1) \div 65536

\* position of the first write of `field` with value `val` in the log, or 0
RECURSIVE FirstAt(_, _, _, _)
FirstAt(log, field, val, k) ==
    IF k > Len(log) THEN 0
    ELSE IF log[k].w = field /\ log[k].v = val THEN k
    ELSE FirstAt(log, field, val, k + 1)

\* C15: a successful Timer::new enables the clock, asserts the reset line,
\* clears it, writes the prescaler, writes the reload and then sets the
\* counter-enable bit, in this order; the counter is not started before
\* prescaler and reload hold their computed values, and no reset follows
\* their writes.
C15_WriteOrder ==
    Constructed =>
        LET en == FirstAt(hwlog, "tim2en", 1, 1)
            r1 == FirstAt(hwlog, "tim2rst", 1, 1)
            r0 == FirstAt(hwlog, "tim2rst", 0, 1)
            ps == FirstAt(hwlog, "psc", PscAtInit, 1)
            ar == FirstAt(hwlog, "arr", ArrAtInit, 1)
            ce == FirstAt(hwlog, "cen", 1, 1)
        IN  /\ Len(hwlog) = 6
            /\ 0 < en /\ en < r1 /\ r1 < r0 /\ r0 < ps /\ ps < ar /\ ar < ce
            /\ \A k \in 1..Len(hwlog) : \A t0 \in {TimReset, TimDirty} :
                   LET t == Replay(SubSeq(hwlog, 1, k), t0) IN
                   /\ (k >= r1 /\ t.cr1.cen = 1) =>
                          t.psc = PscAtInit /\ t.arr = ArrAtInit
                   /\ k >= ce => t = tim
            /\ tim.psc = PscAtInit /\ tim.arr = ArrAtInit /\ tim.cr1.cen = 1
            /\ rcc = [en |-> 1, rst |-> 0]

C15_Witness ==
    /\ Constructed
    /\ last.op = "new"
    /\ Len(hwlog) = 6
    /\ hwlog[6] = W("cen", 1)
    /\ tim.psc > 0
    /\ tim.arr # TimDirty.arr

\* C16: for every requested frequency f > 0 with ticks = clk / f >= 1 the
\* prescaler conversion to 16 bits does not fail, Timer::new fails exactly
\* when ticks is a multiple of 65536 (the reload quotient is then 65536),
\* and every other call succeeds with 1 <= arr <= 65535.
C16_FailsOnMultiples ==
    (status # "fresh" /\ ReqTicks) =>
        LET ticks == clk \div freq IN
        /\ last.err # "unwrap psc"
        /\ Failed <=> ticks % 65536 = 0
        /\ Failed => last.err = "unwrap arr" /\ ticks \div (PscAtInit + 1) = 65536
        /\ Constructed => 1 <= tim.arr /\ tim.arr <= 65535

C16_Witness ==
    /\ Failed
    /\ last.err = "unwrap arr"
    /\ freq > 1
    /\ (clk \div freq) % 65536 = 0
    /\ clk \div freq > 65536

\* C17: every failing call of Timer::new (frequency 0, or a prescaler or
\* reload that cannot be represented) fails before any write to the
\* prescaler, reload or control register: afterwards the counter-enable bit
\* is 0 and prescaler and reload hold their reset values, while the timer's
\* clock is enabled and its reset was pulsed.
C17_FailsBeforeWrites ==
    Failed =>
        /\ tim.cr1.cen = 0
        /\ tim.psc = TimReset.psc
        /\ tim.arr = TimReset.arr
        /\ \A k \in 1..Len(hwlog) : hwlog[k].w \notin {"psc", "arr", "cen"}
        /\ rcc.en = 1
        /\ FirstAt(hwlog, "tim2rst", 1, 1) > 0
        /\ FirstAt(hwlog, "tim2rst", 0, 1) > FirstAt(hwlog, "tim2rst", 1, 1)
        /\ handle = [c \in Channels |-> "none"]

C17_Witness ==
    /\ Failed
    /\ freq = 0
    /\ last.err = "divide by zero"
    /\ rcc.en = 1
    /\ tim = TimReset

\* C18: when the requested frequency exceeds the timer clock (ticks = 0),
\* Timer::new never completes and never starts the counter, whether the
\* underflow of ticks - 1 traps or wraps: it fails before any timer
\* register is written.
C18_TicksZeroFails ==
    (status # "fresh" /\ freq # 0 /\ clk \div freq = 0) =>
        /\ Failed
        /\ last.err \in {"subtract with overflow", "add with overflow", "divide by zero"}
        /\ tim = TimReset
        /\ tim.cr1.cen = 0
        /\ \A k \in 1..Len(hwlog) : hwlog[k].w \notin {"psc", "arr", "cen"}

C18_Witness ==
    /\ Failed
    /\ freq > clk
    /\ clk > 0
    /\ last.err = "divide by zero"

(***************************************************************************)
(* The channel handles: Unassigned -> Assigned.                            *)
(***************************************************************************)
\* the operations of hal::PwmPin
PinOps == {"enable", "disable", "get_duty", "set_duty", "get_max_duty"}

\* C11: enable, disable, get_duty, set_duty and get_max_duty happen on a
\* channel only after assign was performed on its handle, which selected the
\* pin's alternate function; a handle goes from Unassigned to Assigned only
\* by assign, and an Assigned handle never becomes Unassigned again.
C11_AssignFirst ==
    [][/\ last'.op \in PinOps =>
              handle[last'.ch] = "Assigned" /\ pins[last'.ch] = "AF2"
       /\ \A c \in Channels :
           /\ handle[c] = "Assigned" => handle'[c] = "Assigned"
           /\ handle[c] = "Unassigned" => handle'[c] \in {"Unassigned", "Assigned"}
           /\ (handle[c] # "Assigned" /\ handle'[c] = "Assigned") =>
                  /\ handle[c] = "Unassigned"
                  /\ last'.op = "assign" /\ last'.ch = c
                  /\ pins'[c] = "AF2"]_vars

C11_Witness ==
    /\ last.op = "get_max_duty"
    /\ handle[last.ch] = "Assigned"
    /\ pins[last.ch] = "AF2"
    /\ \E c \in Channels : handle[c] = "Unassigned" /\ pins[c] = "unset"

\* C12: at any time at most one handle, Unassigned or Assigned, exists for
\* each channel of the timer: Timer::new yields exactly one Unassigned
\* handle per channel and assign consumes it to produce the one Assigned
\* handle.
C12_OneHandlePerChannel ==
    /\ \A c \in Channels :
        /\ objs[c].un + objs[c].as <= 1
        /\ objs[c].un >= 0
        /\ handle[c] = "Unassigned" <=> objs[c].un = 1
        /\ handle[c] = "Assigned" <=> objs[c].as = 1
        /\ Constructed => objs[c].un + objs[c].as = 1
    /\ (last.op = "new" /\ Constructed) =>
           \A c \in Channels : objs[c] = [un |-> 1, as |-> 0]
    /\ ~Constructed => objs = NoObjs

C12_Witness ==
    /\ last.op = "assign"
    /\ objs[last.ch] = [un |-> 0, as |-> 1]
    /\ \E c \in Channels : objs[c] = [un |-> 1, as |-> 0]
    /\ \E c \in Channels : c # last.ch /\ objs[c] = [un |-> 0, as |-> 1]

(***************************************************************************)
(* enable and disable against an interrupt handler (SpecIrq).              *)
(***************************************************************************)
\* a context is inside the closure of interrupt::free
InClosure(x) == cpu[x].pc \in {"read", "write", "exit"}

\* no call of context x is in progress on channel c
Settled(c) == \A x \in Ctxs : cpu[x].ch # c

\* C13: within enable() the write of preload enable and mode 0b110 completes
\* before the write that sets the output-compare-enable bit, and the whole
\* sequence runs with interrupts disabled; so in every state after Timer::new
\* a channel whose output-compare-enable bit is set has mode 0b110 and its
\* preload-enable bit set.
C13_ModeBeforeEnable ==
    /\ Constructed =>
           \A c \in Channels :
               tim.ccer[c] = 1 =>
                   /\ tim[CcmrName(c)][c].ocm = PWM_MODE_1
                   /\ tim[CcmrName(c)][c].ocpe = 1
    /\ \A x \in Ctxs :
           /\ InClosure(x) => cpu.primask
           /\ (cpu[x].op = "enable" /\ InClosure(x)
                  /\ StepRegs("enable")[cpu[x].idx] = "ccer") =>
                  ChannelBits(tim, cpu[x].ch).ocm = PWM_MODE_1

\* enable() is between its two writes in the main flow: mode and preload are
\* written, the enable bit is not, and no handler can run
C13_Witness ==
    /\ cpu.main.op = "enable"
    /\ cpu.main.pc = "read"
    /\ cpu.main.idx = 2
    /\ cpu.primask
    /\ ChannelBits(tim, cpu.main.ch) = [cce |-> 0, ocm |-> PWM_MODE_1, ocpe |-> 1]
    /\ \E c \in Channels : c # cpu.main.ch /\ tim.ccer[c] = 1

\* C14: with the main flow and an interrupt handler calling enable() and
\* disable() on different channels in any interleaving, no update of the shared
\* registers is lost: between the read and the write of a modify the register
\* still holds the value read and interrupts are disabled, a call on one
\* channel leaves the fields of every other channel alone, and once the calls
\* on a channel are complete its fields are those of the last call issued on it.
C14_NoLostUpdate ==
    Constructed =>
        /\ \A x \in Ctxs :
               cpu[x].pc = "write" =>
                   /\ cpu[x].tmp = tim[StepReg(x)]
                   /\ cpu.primask
                   /\ ~InClosure(Other(x))
        /\ \A c \in Channels : Settled(c) => ChannelBits(tim, c) = cpu.want[c]

\* the handler ran disable() on one channel while the main flow had called
\* enable() on another and had not yet entered its critical section
C14_Witness ==
    /\ cpu.main.pc = "enter"
    /\ cpu.main.op = "enable"
    /\ cpu.irq.pc = "idle"
    /\ last.op = "disable"
    /\ last.ch # cpu.main.ch
    /\ cpu.want[last.ch] = [cce |-> 0, ocm |-> PWM_MODE_1, ocpe |-> 1]
    /\ ChannelBits(tim, last.ch) = cpu.want[last.ch]
    /\ cpu.want[cpu.main.ch].cce = 1
    /\ tim.ccer[cpu.main.ch] = 0

====
